---- MODULE Spec2Model ----
(***************************************************************************)
(* Call lifecycle and audio pacing of the WhatsApp call handler            *)
(* (src/server.js, the active code of lines 1-317).                        *)
(*                                                                         *)
(* The program is a single-threaded Node.js process: every action below is *)
(* one run-to-completion step of the event loop, from the resumption of an *)
(* await (or the arrival of a request, a timer or a callback) to the next  *)
(* suspension.                                                             *)
(***************************************************************************)
EXTENDS Integers, Sequences, FiniteSets, TLC

\* ------------------------------------------------------------------ bounds
MaxSess == 2        \* offers (handleCallOffer invocations) in one run
MaxReq == 2         \* webhook POST requests in one run
MaxEvents == 2      \* call events carried by one webhook payload
MaxFrames == 3      \* length of the longest decoded buffer, in frames
MaxSilent == 1      \* silent frames recorded for one session
MaxSlack == 2       \* bytes a buffer length may differ from whole frames
MaxIce == 2         \* local ICE candidates of one peer connection
MaxLate == 1        \* ms a timer may fire after it is due
PaceFrames == 45    \* frames of the buffer whose playback is timed

\* ------------------------------------------------------- program constants
samples == 960                      \* server.js:195, server.js:238
frameBytes == samples * 2           \* server.js:196
frameMs == 20                       \* server.js:219, server.js:248
sampleRate == 48000                 \* server.js:214, server.js:237
bitsPerSample == 16                 \* server.js:215, server.js:245
channelCount == 1                   \* server.js:216, server.js:246

CallIds == {"A", "B"}
NoId == ""                          \* a call event without an id (falsy c.id)
Sess == 1..MaxSess
Reqs == 1..MaxReq

\* The event names the webhook loop tests, and one it does not handle.
EventNames == {"connect", "ice_candidate", "end", "terminate", "ringing"}

\* One element of value.calls: c.id, c.event (lower-cased), c.session?.sdp.
\* Call "A" receives every kind of event, with and without an SDP; call "B"
\* is there as the other call: it is offered and hung up.
CallEvents ==
    [id : {"A"}, event : EventNames \ {"connect"}, sdp : {FALSE}]
      \cup [id : {"A"}, event : {"connect"}, sdp : BOOLEAN]
      \cup [id : {"B"}, event : {"connect"}, sdp : {TRUE}]
      \cup [id : {"B"}, event : {"end"}, sdp : {FALSE}]
      \cup [id : {NoId}, event : {"connect"}, sdp : {TRUE}]

\* What a teardown step of one session's objects does when it is called:
\* track.stop() raises, pc.close() raises, or neither.
TeardownFaults == {"none", "stop", "close"}

\* What the objects of each callId's entry do in the teardowns of one step;
\* only the callIds in ids can have an entry to tear down in that step.
NoFaults == [c \in CallIds |-> "none"]

FaultsOf(ids) ==
    IF ids = {} THEN {NoFaults}
    ELSE {f \in [CallIds -> TeardownFaults] :
            \A c \in CallIds \ ids : f[c] = "none"}

\* Lengths of the decoded buffer audio.pcm: empty, and MaxFrames frames of
\* which the last is one byte short.
PcmLens == {0, MaxFrames * frameBytes - 1}

VARIABLES
    calls,      \* the Map `calls`: callId -> session whose entry it holds, 0 = none
    sess,       \* per handleCallOffer invocation: its objects and its position
    req,        \* per webhook POST: payload, position in it, response
    feed,       \* the PCM decoder feed taken alone (see FeedSpec)
    pace,       \* the playback loop against the clock (see PaceSpec)
    disk        \* the files audio.mp3 and audio.pcm (see DiskSpec)

vars == <<calls, sess, req, feed, pace, disk>>

SilentFrame == [kind |-> "silent", off |-> 0]
FileFrame(i) == [kind |-> "file", off |-> i]

\* A session that no handleCallOffer has created yet.  req is the request
\* that awaits the session's handleCallOffer, 0 once that has settled;
\* posts are the actions (or types) of the requests it has submitted with
\* postCall; icePending counts its sendLocalICE promises not yet settled and
\* iceRejected those that were rejected (and logged).  lostAt is the state
\* the session was in when its peer connection reported failed,
\* disconnected or closed ("none": it has not).
NoSession ==
    [callId |-> NoId, req |-> 0, hpc |-> "none", failedAt |-> "none",
     pcOpen |-> FALSE, trackLive |-> FALSE,
     silentInterval |-> 0, armed |-> {}, created |-> 0,
     pb |-> "none", pcmLen |-> 0, i |-> 0,
     frames |-> <<>>, torn |-> FALSE, posts |-> <<>>,
     icePending |-> 0, iceRejected |-> 0, lostAt |-> "none"]

\* rest: the events of value.calls not yet handled, the first of them being
\* the one in hand while the handler is suspended.  ignored: the payload
\* received, noted when it is one event for which the loop has nothing to
\* do (Noted).
NoRequest == [rest |-> <<>>, status |-> "idle", ignored |-> <<>>]

\* The decoder feed taken alone: a buffer of len bytes whose byte k is
\* PcmByte(fill, k), the loop offset i, the number n of frames built, the
\* last of them, and whether the loop is over; the data handed to onData
\* with the latest frame, file or silent (sent), and the silent frames that
\* followed the loop.
NoData == [samples |-> <<>>, sampleRate |-> 0, bitsPerSample |-> 0,
           channelCount |-> 0]

NoFeed == [len |-> 0, fill |-> 0, i |-> 0, n |-> 0, last |-> <<>>,
           done |-> TRUE, sent |-> NoData, silent |-> 0]

\* The playback loop against the clock: the time now (ms since the first
\* frame), the loop offset i in a buffer of len bytes, the number n of frames
\* forwarded, the time the pending timer is due, and whether the loop is
\* over; the time of the latest frame (last), the ms between the latest two
\* frames (gap) and the silent frames that followed the loop.
NoPace == [now |-> 0, len |-> 0, i |-> 0, n |-> 0, due |-> 0, done |-> TRUE,
           last |-> 0, gap |-> 0, silent |-> 0]

\* The files of the working directory and the playback pipelines that use
\* them.  mp3: the session whose fetch wrote the bytes audio.mp3 holds (0:
\* no file); pcm: the fetches whose transcoded bytes audio.pcm holds, whole
\* or in part; per pipeline its position, the fetch whose bytes its ffmpeg
\* read, and what readFileSync gave it to play.
NoPipe == [at |-> "none", input |-> 0, played |-> {}]
NoDisk == [mp3 |-> 0, pcm |-> {}, pipe |-> [s \in Sess |-> NoPipe]]

\* The whole program state as one value, so that a handler can be written
\* as a function from state to state.
State == [calls |-> calls, sess |-> sess, req |-> req]

Created(st) == {s \in Sess : st.sess[s].hpc # "none"}

\* ------------------------------------------------------------ cleanupCall
\* clearInterval(h) on the timers of one session: cancelling a handle that
\* is not armed does nothing.
clearInterval(se, h) == [se EXCEPT !.armed = @ \ {h}]

\* The try block of cleanupCall: track.stop(); pc.close(); clearInterval(..).
\* A step that raises ends the block: the steps after it are not run.
TeardownSteps(se, fault) ==
    IF fault = "stop" THEN se
    ELSE IF fault = "close" THEN [se EXCEPT !.trackLive = FALSE]
    ELSE clearInterval([se EXCEPT !.trackLive = FALSE, !.pcOpen = FALSE],
                       se.silentInterval)

\* cleanupCall with calls.delete forgotten.
cleanupCallNoDelete(st, callId, faults) ==
    LET s == st.calls[callId] IN
    IF s = 0 THEN st
    ELSE [st EXCEPT
            !.sess[s] = [TeardownSteps(@, faults[callId]) EXCEPT !.torn = TRUE]]

\* cleanupCall with the registry cleared instead of the one entry deleted.
cleanupCallClears(st, callId, faults) ==
    LET s == st.calls[callId] IN
    IF s = 0 THEN st
    ELSE [st EXCEPT
            !.sess[s] = [TeardownSteps(@, faults[callId]) EXCEPT !.torn = TRUE],
            !.calls = [c \in CallIds |-> 0]]

\* cleanupCall(callId): nothing without an entry; otherwise the teardown
\* steps on the entry's objects (errors swallowed), then calls.delete.
\* faults[callId] is what the objects of callId's entry do in this call.
cleanupCall(st, callId, faults) ==
    LET s == st.calls[callId] IN
    IF s = 0 THEN st
    ELSE [st EXCEPT
            !.sess[s] = [TeardownSteps(@, faults[callId]) EXCEPT !.torn = TRUE],
            !.calls[callId] = 0]

\* ------------------------------------------------------- startSilentAudio
\* setInterval returns a fresh handle; the timer is armed from then on.
startSilentAudio(se) ==
    [se EXCEPT !.created = @ + 1, !.armed = @ \cup {se.created + 1}]

\* The handle startSilentAudio(se) has just returned.
NewHandle(se) == se.created

\* -------------------------------------------------------- handleCallOffer
\* From the call to the first await (setRemoteDescription): tear down a
\* registered session of the same callId, then build the peer connection,
\* the audio source and its track.
handleCallOfferStart(st, r, callId, faults) ==
    LET st1 == IF st.calls[callId] # 0 THEN cleanupCall(st, callId, faults)
               ELSE st
        s == Cardinality(Created(st)) + 1
    IN [st1 EXCEPT
          !.sess[s] = [NoSession EXCEPT !.callId = callId, !.req = r,
                          !.hpc = "setRemote", !.pcOpen = TRUE,
                          !.trackLive = TRUE],
          !.req[r].status = "offer"]

\* From the resolution of the accept POST to the return of handleCallOffer:
\* startSilentAudio, calls.set, and playAudioFromDrive up to its first await
\* (c = calls.get(callId) is the entry just set; axios.get is in flight).
RegisterSession(st, s) ==
    LET se == startSilentAudio(st.sess[s]) IN
    [st EXCEPT
       !.sess[s] = [se EXCEPT !.hpc = "done",
                              !.silentInterval = NewHandle(se),
                              !.pb = "download"],
       !.calls[se.callId] = s]

\* ------------------------------------------------------ app.post /webhook
\* HasOffer with the test of the SDP forgotten.
HasOfferAlways(c) == TRUE

\* const offer = c.session?.sdp; if (offer) ...: the event carries an SDP.
HasOffer(c) == c.sdp

\* IsHangup with every event that is neither connect nor ice_candidate
\* taken for a hangup.
IsHangupOrUnknown(event) == event \notin {"connect", "ice_candidate"}

\* ["end", "terminate"].includes(event)
IsHangup(event) == event \in {"end", "terminate"}

\* The loop over value.calls from the first event of rest on, up to the next
\* await that suspends (handleCallOffer, addIceCandidate) or to the response.
RECURSIVE RunEvents(_, _, _)
RunEvents(st, r, faults) ==
    LET q == st.req[r] IN
    IF q.rest = <<>>
    THEN [st EXCEPT !.req[r].status = "sent200"]
    ELSE
      LET c == Head(q.rest)
          next == [st EXCEPT !.req[r].rest = Tail(@)]
      IN IF c.id = NoId THEN RunEvents(next, r, faults)
         ELSE IF c.event = "connect"
           THEN IF HasOffer(c) THEN handleCallOfferStart(st, r, c.id, faults)
                ELSE RunEvents(next, r, faults)
         ELSE IF c.event = "ice_candidate"
           THEN IF st.calls[c.id] = 0 THEN RunEvents(next, r, faults)
                ELSE [st EXCEPT !.req[r].status = "ice"]
         ELSE IF IsHangup(c.event)
           THEN RunEvents(cleanupCall(next, c.id, faults), r, faults)
         ELSE RunEvents(next, r, faults)

\* RemoteIceSettles with a rejection taken for fatal: the call is cleaned up.
RemoteIceSettlesFatal(st, r, ok, faults) ==
    LET c == Head(st.req[r].rest)
        st1 == IF ok THEN st ELSE cleanupCall(st, c.id, faults)
    IN RunEvents([st1 EXCEPT !.req[r].rest = Tail(@)], r, faults)

\* await c.pc.addIceCandidate(candidate) settles: a rejection is caught and
\* logged, handleRemoteIce returns either way and the loop goes on with the
\* next event.
RemoteIceSettles(st, r, ok, faults) ==
    RunEvents([st EXCEPT !.req[r].rest = Tail(@)], r, faults)

\* OfferReturns with the loop left there: the request is answered and the
\* events after the offer are not handled.
OfferReturnsAnswers(st, s, faults) ==
    LET r == st.sess[s].req IN
    [st EXCEPT !.req[r] = [@ EXCEPT !.rest = <<>>, !.status = "sent200"],
               !.sess[s].req = 0]

\* handleCallOffer has returned: the loop goes on with the next event.
OfferReturns(st, s, faults) ==
    LET r == st.sess[s].req IN
    RunEvents([st EXCEPT !.req[r].rest = Tail(@), !.sess[s].req = 0],
              r, faults)

\* postCall(phoneNumberId, body) of the session: the request with
\* body.action is submitted to the Graph API.
postCall(se, action) == [se EXCEPT !.posts = Append(@, action)]

\* The request the k-th postCall of the session sends: its URL is always
\* /{phoneNumberId}/calls under the base URL and the API version; its body
\* names the call, and carries an action (pre_accept, accept) or a type
\* (ice_candidate).  No environment variable takes part in it.
Request(se, k) ==
    [path |-> <<"PHONE_NUMBER_ID", "calls">>,
     call_id |-> se.callId,
     action |-> IF se.posts[k] = "ice_candidate" THEN "none" ELSE se.posts[k],
     type |-> IF se.posts[k] = "ice_candidate" THEN se.posts[k] ELSE "none"]

\* The values the documentation gives for the variable ANSWER_MODE.
AnswerModes == {"CALL_SCOPED", "PHONE_SCOPED"}

\* OfferThrows with the rejection caught and logged inside handleCallOffer:
\* the function goes on with the step after the one that failed.
OfferThrowsSwallowed(st, s) ==
    LET after == [setRemote |-> "createAnswer", createAnswer |-> "setLocal",
                  setLocal |-> "gather", gather |-> "gather",
                  preAccept |-> "accept", accept |-> "failed"]
    IN [st EXCEPT !.sess[s].failedAt = st.sess[s].hpc,
                  !.sess[s].hpc = after[st.sess[s].hpc]]

\* OfferThrows with a retry: the offer handling starts over from its first
\* await instead of throwing.
OfferThrowsRetry(st, s) ==
    [st EXCEPT !.sess[s].failedAt = st.sess[s].hpc,
               !.sess[s].hpc = "setRemote"]

\* OfferThrows with the catch inside the loop over the events: the events
\* after the offer are handled before the request is answered 500.
OfferThrowsGoesOn(st, s) ==
    LET r == st.sess[s].req
        st1 == RunEvents([st EXCEPT !.sess[s].failedAt = st.sess[s].hpc,
                                    !.sess[s].hpc = "failed",
                                    !.sess[s].req = 0,
                                    !.req[r].rest = Tail(@)],
                         r, NoFaults)
    IN IF st1.req[r].status = "sent200"
       THEN [st1 EXCEPT !.req[r].status = "sent500"]
       ELSE st1

\* An await of handleCallOffer rejects: the function throws at step hpc, the
\* webhook's catch answers 500, and the rest of the payload is not handled.
OfferThrows(st, s) ==
    [st EXCEPT !.sess[s].failedAt = st.sess[s].hpc,
               !.sess[s].hpc = "failed",
               !.sess[s].req = 0,
               !.req[st.sess[s].req] =
                   [@ EXCEPT !.rest = <<>>, !.status = "sent500"]]

\* An await of handleCallOffer resolves and the function suspends at the next.
OfferAdvances(st, s, to) == [st EXCEPT !.sess[s].hpc = to]

\* ----------------------------------------------------- playAudioFromDrive
\* Byte k (from 0) of a decoded buffer: the buffers differ by fill.
PcmByte(fill, k) == (k + fill) % 256

\* readInt16LE with the bytes taken in the other order (big-endian).
readInt16BE(fill, idx) ==
    LET u == 256 * PcmByte(fill, idx) + PcmByte(fill, idx + 1)
    IN IF u >= 32768 THEN u - 65536 ELSE u

\* pcm.readInt16LE(idx): the two bytes at idx as a signed 16-bit
\* little-endian number.
readInt16LE(fill, idx) ==
    LET u == PcmByte(fill, idx) + 256 * PcmByte(fill, idx + 1)
    IN IF u >= 32768 THEN u - 65536 ELSE u

\* BuildFrame with the bounds test forgotten: every sample is read.
BuildFrameNoPad(len, fill, i) ==
    [j \in 1..samples |-> readInt16LE(fill, i + (j - 1) * 2)]

\* BuildFrame with the partial frame kept as short as its data: a sample
\* is in the frame only when both its bytes are in the buffer.
BuildFrameShort(len, fill, i) ==
    LET m == IF (len - i) \div 2 < samples THEN (len - i) \div 2 ELSE samples
    IN [j \in 1..m |-> readInt16LE(fill, i + (j - 1) * 2)]

\* The inner loop: the Int16Array of the frame at byte offset i of a buffer
\* of len bytes; sample j (from 1 here, from 0 in the code) is read when
\* both its bytes are in the buffer and is 0 otherwise.
BuildFrame(len, fill, i) ==
    [j \in 1..samples |->
        LET idx == i + (j - 1) * 2
        IN IF idx + 1 < len THEN readInt16LE(fill, idx) ELSE 0]

\* const silent = new Int16Array(samples): the samples of a silent frame.
SilentSamples == [j \in 1..samples |-> 0]

\* The object handed to audioSource.onData with a frame's samples.
AudioData(frame) ==
    [samples |-> frame, sampleRate |-> sampleRate,
     bitsPerSample |-> bitsPerSample, channelCount |-> channelCount]

\* audioSource.onData(frame): the frame reaches the session's audio source.
onData(se, frame) == [se EXCEPT !.frames = Append(@, frame)]

\* The test and the step of `for (let i = 0; i < pcm.length; i += frameBytes)`.
LoopTest(i, len) == i < len

\* LoopStep with the step counted in samples of two bytes twice over.
LoopStepDouble(i) == i + 2 * frameBytes

LoopStep(i) == i + frameBytes

\* The for loop at its test, offset se.i: either one more frame is built and
\* delivered and the loop suspends at wait(20), or the loop is over and the
\* silent timer is restarted into c.silentInterval.  A raising onData leaves
\* the function through its catch ("aborted": nothing is restarted).
PlayLoop(se, sendOk) ==
    IF LoopTest(se.i, se.pcmLen)
    THEN IF sendOk THEN [onData(se, FileFrame(se.i)) EXCEPT !.pb = "playing"]
         ELSE [se EXCEPT !.pb = "aborted"]
    ELSE LET se1 == startSilentAudio(se) IN
         [se1 EXCEPT !.silentInterval = NewHandle(se1), !.pb = "finished"]

\* PlaybackTakesOver with the clearInterval forgotten.
PlaybackTakesOverNoClear(se, len, readOk, sendOk) ==
    IF ~readOk THEN [se EXCEPT !.pb = "aborted"]
    ELSE PlayLoop([se EXCEPT !.pcmLen = len, !.i = 0], sendOk)

\* From the end of ffmpeg to the first wait(20): clearInterval of the timer
\* in the entry, readFileSync of audio.pcm (len bytes), first loop test.
\* A raising readFileSync leaves the function through its catch.
PlaybackTakesOver(se, len, readOk, sendOk) ==
    LET se1 == clearInterval(se, se.silentInterval) IN
    IF ~readOk THEN [se1 EXCEPT !.pb = "aborted"]
    ELSE PlayLoop([se1 EXCEPT !.pcmLen = len, !.i = 0], sendOk)

\* PlaybackFailed with the silent timer stopped on the way out.
PlaybackFailedStopsSilence(se) ==
    clearInterval([se EXCEPT !.pb = "failed"], se.silentInterval)

\* The catch of playAudioFromDrive for a rejected download or a failed
\* ffmpeg: the error is logged and the function returns; the timer has not
\* been touched yet.
PlaybackFailed(se) == [se EXCEPT !.pb = "failed"]

\* The silent frames among the frames delivered.
SilentCount(fs) == Cardinality({k \in 1..Len(fs) : fs[k].kind = "silent"})

\* ---------------------------------------------------------------- inputs
\* The events the webhook loop does something for.
Handled(c) ==
    /\ c.id # NoId
    /\ \/ c.event = "connect" /\ c.sdp
       \/ c.event \in {"ice_candidate", "end", "terminate"}

\* What a request notes of its payload: the payload itself when it is a
\* single event that is not one of the handled ones.
Noted(payload) ==
    IF Len(payload) = 1 /\ ~Handled(payload[1]) THEN payload ELSE <<>>

\* The payloads a webhook POST may carry: any one event, or an offer
\* followed by handled events (an event the loop skips leaves a payload that
\* acts as the payload without it).
Payloads ==
    [1..1 -> CallEvents] \cup
    UNION {{p \in [1..n -> {c \in CallEvents : Handled(c)}] :
               p[1].event = "connect"} : n \in 2..MaxEvents}

\* The events of a payload that start a handleCallOffer.
Offers(events) ==
    Cardinality({k \in 1..Len(events) :
        events[k].id # NoId /\ events[k].event = "connect" /\ events[k].sdp})

\* The callId of the first offer of a payload (NoId when it has none).
\* The call ids are opaque and interchangeable: the first call offered in a
\* run is called "A".
FirstOffer(events) ==
    LET ks == {k \in 1..Len(events) :
                 events[k].id # NoId /\ events[k].event = "connect"
                    /\ events[k].sdp}
    IN IF ks = {} THEN NoId
       ELSE events[CHOOSE k \in ks : \A j \in ks : k <= j].id

RECURSIVE SumOffers(_)
SumOffers(rs) ==
    IF rs = {} THEN 0
    ELSE LET r == CHOOSE x \in rs : TRUE
         IN Offers(Tail(req[r].rest)) + SumOffers(rs \ {r})

\* The offers the suspended requests have still to start (the event in hand
\* is not among them: its handler is already running).
PendingOffers ==
    SumOffers({r \in Reqs : req[r].rest # <<>>})

\* The callIds that have a registry entry.
Registered == {c \in CallIds : calls[c] # 0}

\* The callIds for which the events call cleanupCall.
Cleaned(events) ==
    {events[k].id : k \in {j \in 1..Len(events) :
        Handled(events[j]) /\ events[j].event # "ice_candidate"}}

\* The callIds cleaned when request r goes on after the event in hand.
RestCleans(r) == IF req[r].rest = <<>> THEN {} ELSE Cleaned(Tail(req[r].rest))

\* The callIds that may lose an entry in the step that registers session s.
AcceptCleans(s) ==
    IF sess[s].req = 0 THEN {}
    ELSE (Registered \cup {sess[s].callId}) \cap RestCleans(sess[s].req)

\* The payloads with at most n offers, and those among them whose first
\* offer is not for "B".
PayloadsUpTo == [n \in 0..MaxSess |-> {p \in Payloads : Offers(p) <= n}]
PayloadsFirstA ==
    [n \in 0..MaxSess |-> {p \in PayloadsUpTo[n] : FirstOffer(p) # "B"}]
CleanedBy == [p \in Payloads |-> Cleaned(p)]

\* The payloads a request may carry now: every offer of the run has a
\* session to run in, and the first call offered is "A".
Admissible ==
    LET n == MaxSess - Cardinality(Created(State)) - PendingOffers
        ps == IF n < 0 THEN {}
              ELSE IF Created(State) = {} THEN PayloadsFirstA[n]
              ELSE PayloadsUpTo[n]
    IN ps

\* The state once the process has exited on an uncaught exception: nothing
\* of it remains, and no request is served any more.
Exited ==
    [calls |-> [c \in CallIds |-> 0],
     sess |-> [s \in Sess |-> NoSession],
     req |-> [r \in Reqs |-> [NoRequest EXCEPT !.status = "exited"]]]

Commit(st) ==
    /\ calls' = st.calls
    /\ sess' = st.sess
    /\ req' = st.req
    /\ UNCHANGED <<feed, pace, disk>>

\* ------------------------------------------------------------------ Init
Init ==
    /\ calls = [c \in CallIds |-> 0]
    /\ sess = [s \in Sess |-> NoSession]
    /\ req = [r \in Reqs |-> NoRequest]
    /\ feed = NoFeed
    /\ pace = NoPace
    /\ disk = NoDisk

\* --------------------------------------------------------------- actions
\* A webhook POST arrives; its handler runs up to its first suspension.
Receive(r, payload, faults) ==
    /\ req[r].status = "idle"
    /\ \A q \in Reqs : q < r => req[q].status # "idle"
    /\ payload \in Admissible
    /\ Commit(RunEvents([State EXCEPT !.req[r].rest = payload,
                                       !.req[r].ignored = Noted(payload)],
                         r, faults))

\* await pc.setRemoteDescription(..) settles.
SetRemoteDescription(s, ok) ==
    /\ sess[s].hpc = "setRemote"
    /\ Commit(IF ok THEN OfferAdvances(State, s, "createAnswer")
              ELSE OfferThrows(State, s))

\* await pc.createAnswer() settles.
CreateAnswer(s, ok) ==
    /\ sess[s].hpc = "createAnswer"
    /\ Commit(IF ok THEN OfferAdvances(State, s, "setLocal")
              ELSE OfferThrows(State, s))

\* await pc.setLocalDescription(answer) settles.
SetLocalDescription(s, ok) ==
    /\ sess[s].hpc = "setLocal"
    /\ Commit(IF ok THEN OfferAdvances(State, s, "gather")
              ELSE OfferThrows(State, s))

\* IceGatheringComplete with the await of the pre-accept POST forgotten:
\* the accept POST is sent in the same step.
IceGatheringCompleteNoAwait(s) ==
    /\ sess[s].hpc = "gather"
    /\ Commit([OfferAdvances(State, s, "accept") EXCEPT
                  !.sess[s] = postCall(postCall(@, "pre_accept"), "accept")])

\* IceGatheringComplete with the promise left unresolved: the state change
\* is seen and handleCallOffer stays suspended.
IceGatheringCompleteUnresolved(s) ==
    /\ sess[s].hpc = "gather"
    /\ Commit(State)

\* iceGatheringState is complete: the pre-accept POST is sent.
IceGatheringComplete(s) ==
    /\ sess[s].hpc = "gather"
    /\ Commit([OfferAdvances(State, s, "preAccept") EXCEPT
                  !.sess[s] = postCall(@, "pre_accept")])

\* The pre-accept POST settles; on success the accept POST is sent.
PreAccept(s, ok) ==
    /\ sess[s].hpc = "preAccept"
    /\ Commit(IF ok THEN [OfferAdvances(State, s, "accept") EXCEPT
                              !.sess[s] = postCall(@, "accept")]
              ELSE OfferThrows(State, s))

\* The accept POST settles; on success the session is registered, playback
\* is started, handleCallOffer returns and the webhook loop goes on.
Accept(s, ok, faults) ==
    /\ sess[s].hpc = "accept"
    /\ Commit(IF ok THEN OfferReturns(RegisterSession(State, s), s, faults)
              ELSE OfferThrows(State, s))

\* await c.pc.addIceCandidate(candidate) settles (a rejection is caught and
\* logged): handleRemoteIce returns and the webhook loop goes on.
RemoteIceDone(r, ok, faults) ==
    /\ req[r].status = "ice"
    /\ Commit(RemoteIceSettles(State, r, ok, faults))

\* pc.onconnectionstatechange with failed, disconnected or closed, on a peer
\* connection that is negotiating connectivity: cleanupCall(callId).
ConnectionStateChange(s, faults) ==
    /\ sess[s].pcOpen
    /\ sess[s].hpc \in {"gather", "preAccept", "accept", "done", "failed"}
    /\ sess[s].hpc = "failed" =>
          sess[s].failedAt \in {"preAccept", "accept"}
    /\ Commit(cleanupCall(State, sess[s].callId, faults))

\* await axios.get(fileUrl) settles; on success audio.mp3 is written and
\* ffmpeg is started.
DownloadDone(s, ok) ==
    /\ sess[s].pb = "download"
    /\ Commit([State EXCEPT !.sess[s] =
          IF ok THEN [@ EXCEPT !.pb = "convert"] ELSE PlaybackFailed(@)])

\* ffmpeg ends; on success playback takes over from the silent timer, on
\* failure the function is left through its catch ("failed", as after a
\* failed download: the timer was not touched).
ConvertDone(s, ok, len, readOk, sendOk) ==
    /\ sess[s].pb = "convert"
    /\ Commit([State EXCEPT !.sess[s] =
          IF ok THEN PlaybackTakesOver(@, len, readOk, sendOk)
          ELSE PlaybackFailed(@)])

\* await wait(20) resolves: i += frameBytes and the loop test again.
WaitDone(s, sendOk) ==
    /\ sess[s].pb = "playing"
    /\ Commit([State EXCEPT !.sess[s] =
          PlayLoop([@ EXCEPT !.i = LoopStep(@)], sendOk)])

\* The setInterval callback of an armed timer: one silent frame.
SilentTick(s, h) ==
    /\ h \in sess[s].armed
    /\ SilentCount(sess[s].frames) < MaxSilent
    /\ Commit([State EXCEPT !.sess[s] = onData(@, SilentFrame)])

\* The setInterval callback of an armed timer whose audioSource.onData
\* raises: the callback has no try/catch and the program no handler of
\* uncaught exceptions, so the exception ends the process.
SilentTickRaises(s, h) ==
    /\ h \in sess[s].armed
    /\ Commit(Exited)

\* The steps of the webhook handlers, of the offer handling, of the playback
\* and of the timers.
Handlers ==
    \/ \E r \in Reqs, p \in Admissible :
          \E f \in FaultsOf(Registered \cap CleanedBy[p]) : Receive(r, p, f)
    \/ \E s \in Sess, ok \in BOOLEAN : SetRemoteDescription(s, ok)
    \/ \E s \in Sess, ok \in BOOLEAN : CreateAnswer(s, ok)
    \/ \E s \in Sess, ok \in BOOLEAN : SetLocalDescription(s, ok)
    \/ \E s \in Sess : IceGatheringComplete(s)
    \/ \E s \in Sess, ok \in BOOLEAN : PreAccept(s, ok)
    \/ \E s \in Sess, ok \in BOOLEAN : \E f \in FaultsOf(AcceptCleans(s)) :
          Accept(s, ok, f)
    \/ \E r \in Reqs, ok \in BOOLEAN :
          \E f \in FaultsOf(Registered \cap RestCleans(r)) :
              RemoteIceDone(r, ok, f)
    \/ \E s \in Sess, ok \in BOOLEAN : DownloadDone(s, ok)
    \/ \E s \in Sess, ok \in BOOLEAN, len \in PcmLens,
          readOk \in BOOLEAN, sendOk \in BOOLEAN :
              ConvertDone(s, ok, len, readOk, sendOk)
    \/ \E s \in Sess, sendOk \in BOOLEAN : WaitDone(s, sendOk)
    \/ \E s \in Sess, h \in 1..2 : SilentTick(s, h)
    \/ \E s \in Sess, h \in 1..2 : SilentTickRaises(s, h)

Next ==
    \/ Handlers
    \/ \E s \in Sess : \E f \in FaultsOf({sess[s].callId}) :
          ConnectionStateChange(s, f)

Spec == Init /\ [][Next]_vars

\* --------------------------------------------- local ICE candidates alone
\* The submission of local ICE candidates changes nothing of what Spec
\* describes, so Spec leaves it out; IceSpec is the program serving one
\* offer, with the candidates of its peer connection and their POSTs.
IceCandidates(se) ==
    Cardinality({k \in 1..Len(se.posts) : se.posts[k] = "ice_candidate"})

\* sendLocalICE(callId, phoneNumberId, cand): postCall with the candidate.
sendLocalICE(se) ==
    [postCall(se, "ice_candidate") EXCEPT !.icePending = @ + 1]

\* pc.onicecandidate with a candidate, while the peer connection gathers:
\* sendLocalICE(..).catch(console.error) is started.
LocalIceCandidate(s) ==
    /\ sess[s].pcOpen
    /\ sess[s].hpc = "gather"
    /\ IceCandidates(sess[s]) < MaxIce
    /\ Commit([State EXCEPT !.sess[s] = sendLocalICE(@)])

\* LocalIceSettles with a rejection taken for fatal: the call is cleaned up.
LocalIceSettlesFatal(s, ok) ==
    /\ sess[s].icePending > 0
    /\ Commit(IF ok THEN [State EXCEPT !.sess[s].icePending = @ - 1]
              ELSE cleanupCall([State EXCEPT !.sess[s].icePending = @ - 1,
                                             !.sess[s].iceRejected = @ + 1],
                               sess[s].callId, NoFaults))

\* The promise of a sendLocalICE settles; a rejection goes to console.error.
LocalIceSettles(s, ok) ==
    /\ sess[s].icePending > 0
    /\ Commit([State EXCEPT
                  !.sess[s].icePending = @ - 1,
                  !.sess[s].iceRejected = IF ok THEN @ ELSE @ + 1])

\* One offer is served: no second session is created.
OneOffer == \A s \in Sess : s > 1 => sess[s] = NoSession

IceNext ==
    \/ Next /\ OneOffer'
    \/ \E s \in Sess : LocalIceCandidate(s)
    \/ \E s \in Sess, ok \in BOOLEAN : LocalIceSettles(s, ok)

IceSpec == Init /\ [][IceNext]_vars

\* ------------------------------------------------- the decoder feed alone
\* The frame loop of playAudioFromDrive run on buffers of every length near
\* a whole number of frames, with the frames' samples computed.
FeedLens ==
    {n \in 0..(MaxFrames * frameBytes + MaxSlack) :
        \E q \in 0..MaxFrames :
            /\ n >= q * frameBytes - MaxSlack
            /\ n <= q * frameBytes + MaxSlack}

FeedFills == {1, 255}

FeedInit ==
    /\ calls = [c \in CallIds |-> 0]
    /\ sess = [s \in Sess |-> NoSession]
    /\ req = [r \in Reqs |-> NoRequest]
    /\ feed \in {[NoFeed EXCEPT !.len = n, !.fill = b, !.done = FALSE] :
                    n \in FeedLens, b \in FeedFills}
    /\ pace = NoPace
    /\ disk = NoDisk

\* One pass of the loop body: the frame at offset i is built and delivered.
FeedFrame ==
    /\ ~feed.done
    /\ LoopTest(feed.i, feed.len)
    /\ feed' = [feed EXCEPT !.last = BuildFrame(feed.len, feed.fill, feed.i),
                            !.sent = AudioData(BuildFrame(feed.len, feed.fill,
                                                          feed.i)),
                            !.n = @ + 1,
                            !.i = LoopStep(@)]
    /\ UNCHANGED <<calls, sess, req, pace, disk>>

\* The loop test fails: the loop is over.
FeedEnd ==
    /\ ~feed.done
    /\ ~LoopTest(feed.i, feed.len)
    /\ feed' = [feed EXCEPT !.done = TRUE]
    /\ UNCHANGED <<calls, sess, req, pace, disk>>

\* A tick of the silent timer restarted after the loop: one silent frame.
FeedSilent ==
    /\ feed.done
    /\ feed.silent < MaxSilent
    /\ feed' = [feed EXCEPT !.sent = AudioData(SilentSamples),
                            !.silent = @ + 1]
    /\ UNCHANGED <<calls, sess, req, pace, disk>>

FeedNext == FeedFrame \/ FeedEnd \/ FeedSilent

FeedSpec == FeedInit /\ [][FeedNext]_vars

\* ----------------------------------------- the playback loop and the clock
\* wait(ms): setTimeout(r, ms) armed at time now; the timer is due ms later.
wait(now, ms) == now + ms

\* setInterval(f, ms) armed, or re-armed by a tick, at time now: the next
\* tick is due ms later.
setInterval(now, ms) == now + ms

\* The loop has just forwarded its first frame, at time 0, and waits.
PaceInit ==
    /\ calls = [c \in CallIds |-> 0]
    /\ sess = [s \in Sess |-> NoSession]
    /\ req = [r \in Reqs |-> NoRequest]
    /\ feed = NoFeed
    /\ pace = [NoPace EXCEPT !.len = PaceFrames * frameBytes, !.n = 1,
                             !.due = wait(0, frameMs), !.done = FALSE]
    /\ disk = NoDisk

\* The timer of wait(20) fires, late ms after it is due (a timer never fires
\* early): the loop steps, builds and forwards the next frame and waits
\* again, 20 ms from now.
PaceFrame(late) ==
    /\ ~pace.done
    /\ LoopTest(LoopStep(pace.i), pace.len)
    /\ pace' = [pace EXCEPT !.now = pace.due + late,
                            !.i = LoopStep(@),
                            !.n = @ + 1,
                            !.last = pace.due + late,
                            !.gap = pace.due + late - pace.last,
                            !.due = wait(pace.due + late, frameMs)]
    /\ UNCHANGED <<calls, sess, req, feed, disk>>

\* The timer fires and the loop test fails: the loop is over, and
\* startSilentAudio arms the silent timer, due 20 ms from now.
PaceEnd(late) ==
    /\ ~pace.done
    /\ ~LoopTest(LoopStep(pace.i), pace.len)
    /\ pace' = [pace EXCEPT !.now = pace.due + late,
                            !.i = LoopStep(@),
                            !.done = TRUE,
                            !.due = setInterval(pace.due + late, frameMs)]
    /\ UNCHANGED <<calls, sess, req, feed, disk>>

\* The silent timer fires: one silent frame, and the next tick is due 20 ms
\* from now.
PaceSilent(late) ==
    /\ pace.done
    /\ pace.silent < MaxSilent
    /\ pace' = [pace EXCEPT !.now = pace.due + late,
                            !.n = @ + 1,
                            !.silent = @ + 1,
                            !.last = pace.due + late,
                            !.gap = pace.due + late - pace.last,
                            !.due = setInterval(pace.due + late, frameMs)]
    /\ UNCHANGED <<calls, sess, req, feed, disk>>

PaceNext ==
    \/ \E late \in 0..MaxLate : PaceFrame(late)
    \/ \E late \in 0..MaxLate : PaceEnd(late)
    \/ \E late \in 0..MaxLate : PaceSilent(late)

PaceSpec == PaceInit /\ [][PaceNext]_vars

\* ------------------------------------------- the playback pipelines' files
\* Spec takes the length of audio.pcm as an input of the step that reads
\* it; DiskSpec follows whose bytes the two files hold while the pipelines
\* of the registered sessions run, each from its fetch to its read.
DiskInit ==
    /\ calls = [c \in CallIds |-> 0]
    /\ sess = [s \in Sess |-> NoSession]
    /\ req = [r \in Reqs |-> NoRequest]
    /\ feed = NoFeed
    /\ pace = NoPace
    /\ disk = NoDisk

\* A session is registered and its playAudioFromDrive is started: axios.get
\* is in flight.
PipeStarts(s) ==
    /\ disk.pipe[s].at = "none"
    /\ \A e \in Sess : e < s => disk.pipe[e].at # "none"
    /\ disk' = [disk EXCEPT !.pipe[s].at = "download"]
    /\ UNCHANGED <<calls, sess, req, feed, pace>>

\* await axios.get settles: on success the bytes fetched are written to
\* audio.mp3 and ffmpeg is spawned; on failure the pipeline is over.
PipeFetched(s, ok) ==
    /\ disk.pipe[s].at = "download"
    /\ disk' = IF ok THEN [disk EXCEPT !.mp3 = s, !.pipe[s].at = "spawned"]
               ELSE [disk EXCEPT !.pipe[s].at = "failed"]
    /\ UNCHANGED <<calls, sess, req, feed, pace>>

\* The ffmpeg process of the pipeline opens its files: it reads audio.mp3 as
\* it is now and, with -y, truncates audio.pcm.
FfmpegOpens(s) ==
    /\ disk.pipe[s].at = "spawned"
    /\ disk' = [disk EXCEPT !.pcm = {},
                            !.pipe[s].input = disk.mp3,
                            !.pipe[s].at = "transcoding"]
    /\ UNCHANGED <<calls, sess, req, feed, pace>>

\* The ffmpeg process writes its output into audio.pcm.
FfmpegWrites(s) ==
    /\ disk.pipe[s].at = "transcoding"
    /\ disk' = [disk EXCEPT !.pcm = @ \cup {disk.pipe[s].input},
                            !.pipe[s].at = "written"]
    /\ UNCHANGED <<calls, sess, req, feed, pace>>

\* The ffmpeg process exits and the callback of exec runs: on success the
\* pipeline reads audio.pcm as it is now and plays it; on failure it is over.
FfmpegExits(s, ok) ==
    /\ disk.pipe[s].at = "written"
    /\ disk' = IF ok THEN [disk EXCEPT !.pipe[s].played = disk.pcm,
                                       !.pipe[s].at = "playing"]
               ELSE [disk EXCEPT !.pipe[s].at = "failed"]
    /\ UNCHANGED <<calls, sess, req, feed, pace>>

DiskNext ==
    \/ \E s \in Sess : PipeStarts(s)
    \/ \E s \in Sess, ok \in BOOLEAN : PipeFetched(s, ok)
    \/ \E s \in Sess : FfmpegOpens(s)
    \/ \E s \in Sess : FfmpegWrites(s)
    \/ \E s \in Sess, ok \in BOOLEAN : FfmpegExits(s, ok)

DiskSpec == DiskInit /\ [][DiskNext]_vars

\* =================================================================== claims
\* ----------------------------------------------------- what a claim reads
IsCreated(s) == sess[s].hpc # "none"

\* The session holds the registry entry of its callId.
IsRegistered(s) == IsCreated(s) /\ calls[sess[s].callId] = s

\* handleCallOffer of the session is suspended before its pre-accept POST.
Negotiating(s) ==
    sess[s].hpc \in {"setRemote", "createAnswer", "setLocal", "gather"}

\* The pre-accept POST of the session has been sent.
PreAcceptSent(s) ==
    \/ sess[s].hpc \in {"preAccept", "accept", "done"}
    \/ sess[s].hpc = "failed" /\ sess[s].failedAt \in {"preAccept", "accept"}

\* The accept POST of the session has been sent.
AcceptSent(s) ==
    \/ sess[s].hpc \in {"accept", "done"}
    \/ sess[s].hpc = "failed" /\ sess[s].failedAt = "accept"

\* Live: an open peer connection, an armed timer or a running playback loop.
Live(s) ==
    IsCreated(s) /\ (sess[s].pcOpen \/ sess[s].armed # {}
                        \/ sess[s].pb = "playing")

\* Fully torn down: track stopped, peer connection closed, timer cancelled.
Released(s) == ~sess[s].trackLive /\ ~sess[s].pcOpen /\ sess[s].armed = {}

\* The frame producers of a session that are active: its armed timers and
\* its playback loop.
Producers(s) ==
    Cardinality(sess[s].armed) + (IF sess[s].pb = "playing" THEN 1 ELSE 0)

\* The state of the session in the terms of the specification's lifecycle.
SessionState(s) ==
    IF Negotiating(s) THEN "NEGOTIATING"
    ELSE IF sess[s].hpc \in {"preAccept", "accept"} THEN "PRE_ACCEPTED"
    ELSE IF IsRegistered(s)
         THEN (IF sess[s].pb = "playing" THEN "STREAMING" ELSE "ACCEPTED")
    ELSE "TERMINATED"

\* --------------------------------- the peer connections' states followed
\* Spec does not keep the connection state of a peer connection.  ConnSpec
\* is the program serving call "A" while the downloads of its playbacks are
\* in flight, with, for each peer connection that reports a lost connection,
\* the state its session was in when it first did (lostAt).
ConnectionLost(s, faults) ==
    /\ sess[s].pcOpen
    /\ sess[s].hpc \in {"gather", "preAccept", "accept", "done", "failed"}
    /\ sess[s].hpc = "failed" =>
          sess[s].failedAt \in {"preAccept", "accept"}
    /\ Commit(cleanupCall(
          [State EXCEPT !.sess[s].lostAt =
                            IF @ = "none" THEN SessionState(s) ELSE @],
          sess[s].callId, faults))

\* Only call "A" is offered, and no download has settled.
OneCall ==
    /\ \A s \in Sess : sess[s].callId \in {NoId, "A"}
    /\ \A s \in Sess : sess[s].pb \in {"none", "download"}

ConnNext ==
    \/ Handlers /\ OneCall'
    \/ \E s \in Sess : \E f \in FaultsOf({sess[s].callId}) :
          ConnectionLost(s, f)

ConnSpec == Init /\ [][ConnNext]_vars

\* ----------------------------------------- the offer handling and fairness
\* LiveSpec is the program with every external operation an offer handling
\* awaits settling in the end: the three negotiation steps, the ICE
\* gathering and the two call-control POSTs.
ExternalsReturn ==
    \A s \in Sess :
        /\ WF_vars(\E ok \in BOOLEAN : SetRemoteDescription(s, ok))
        /\ WF_vars(\E ok \in BOOLEAN : CreateAnswer(s, ok))
        /\ WF_vars(\E ok \in BOOLEAN : SetLocalDescription(s, ok))
        /\ WF_vars(IceGatheringComplete(s))
        /\ WF_vars(\E ok \in BOOLEAN : PreAccept(s, ok))
        /\ WF_vars(\E ok \in BOOLEAN : \E f \in FaultsOf(AcceptCleans(s)) :
                      Accept(s, ok, f))

LiveSpec == Spec /\ ExternalsReturn

\* C1: at every instant at most one session of a callId is live (open peer
\* connection, armed timer or running playback loop), and while a session
\* is registered every earlier session of its callId is fully torn down
\* (track stopped, peer connection closed, timer cancelled).
C1_AtMostOneLiveSession ==
    /\ \A c \in CallIds :
          Cardinality({s \in Sess : sess[s].callId = c /\ Live(s)}) <= 1
    /\ \A s \in Sess : IsRegistered(s) =>
          \A e \in Sess :
              (e < s /\ sess[e].callId = sess[s].callId) => Released(e)

\* C2: a second offer of a callId that arrives while the first is still
\* negotiating does not get to its own pre-accept before the first has
\* finished or been terminated, and once both offers are processed exactly
\* one of the two sessions is registered and the peer connection of the
\* other is closed.
C2_SecondOfferWaitsOrTerminates ==
    \A e \in Sess, s \in Sess :
        (e < s /\ IsCreated(s) /\ sess[e].callId = sess[s].callId) =>
            /\ (Negotiating(e) /\ sess[e].pcOpen) => ~PreAcceptSent(s)
            /\ (sess[e].hpc = "done" /\ sess[s].hpc = "done"
                   /\ ~sess[e].torn /\ ~sess[s].torn) =>
                  /\ IsRegistered(s) # IsRegistered(e)
                  /\ IsRegistered(s) => ~sess[e].pcOpen
                  /\ IsRegistered(e) => ~sess[s].pcOpen

\* The session was registered and cleanupCall has torn it down: its steps
\* ran (track stopped, peer connection closed, timer of the entry cancelled).
TornDown(s) == sess[s].torn /\ ~sess[s].trackLive /\ ~sess[s].pcOpen

\* C3: once a registered session has been torn down (by a hangup or by its
\* peer connection failing) the registry does not hold it and no further
\* frame, silent or file, reaches its audio source, whatever the phase of
\* its playback was.
C3_NoFrameAfterTeardown ==
    [][\A s \in Sess : TornDown(s) =>
          /\ ~IsRegistered(s)
          /\ Len(sess'[s].frames) <= Len(sess[s].frames)]_vars

\* C4: a registered session has exactly one active frame producer at every
\* instant: the armed silent timer or the playback loop, never both and
\* never neither.
C4_ExactlyOneProducer ==
    \A s \in Sess : IsRegistered(s) => Producers(s) = 1

\* C5: a timer is armed for a session if and only if the session is in
\* state ACCEPTED or STREAMING (none before its accept succeeds, none after
\* it is terminated, one throughout ACCEPTED and STREAMING), and the session
\* creates its timer once.
C5_TimerIffAcceptedOrStreaming ==
    \A s \in Sess : IsCreated(s) =>
        /\ sess[s].armed # {} <=> SessionState(s) \in {"ACCEPTED", "STREAMING"}
        /\ sess[s].created <= 1

\* The frames a buffer of len bytes holds.
FramesOf(len) == (len + frameBytes - 1) \div frameBytes

\* The places of the file frames among the frames delivered to a session.
FilePlaces(s) ==
    {k \in 1..Len(sess[s].frames) : sess[s].frames[k].kind = "file"}

\* C6: on a registered session with a decoded buffer of k frames the audio
\* source receives the k file frames in order, each once (the n-th at offset
\* (n-1)*1920), with no silent frame between the first and the last of
\* them; a silent frame follows a file frame only when all k have been
\* delivered, and when the loop is over exactly k have been.
C6_SwitchBack ==
    \A s \in Sess : IsRegistered(s) =>
        LET fs == sess[s].frames
            F == FilePlaces(s)
            k == FramesOf(sess[s].pcmLen)
        IN /\ \A a \in F :
                 fs[a].off = (Cardinality({b \in F : b <= a}) - 1) * frameBytes
           /\ \A a \in F, b \in F, m \in 1..Len(fs) : (a < m /\ m < b) => m \in F
           /\ Cardinality(F) <= k
           /\ (\E a \in F, m \in 1..Len(fs) : a < m /\ m \notin F)
                 => Cardinality(F) = k /\ sess[s].pb = "finished"
           /\ sess[s].pb = "finished" => Cardinality(F) = k

\* A registered session has played a buffer of MaxFrames frames and a silent
\* frame has followed.
C6_Witness ==
    \E s \in Sess :
        /\ IsRegistered(s)
        /\ Len(sess[s].frames) = MaxFrames + 1
        /\ \A m \in 1..MaxFrames : sess[s].frames[m].kind = "file"
        /\ sess[s].frames[MaxFrames + 1].kind = "silent"

\* C7: for a buffer of N bytes the loop builds ceil(N/1920) frames, and in
\* the last frame every sample whose bytes lie beyond byte N is zero.
C7_FrameCountAndPadding ==
    /\ feed.n <= FramesOf(feed.len)
    /\ feed.done => feed.n = FramesOf(feed.len)
    /\ feed.n > 0 =>
          /\ Len(feed.last) = samples
          /\ \A j \in 1..samples :
                (feed.n - 1) * frameBytes + (j - 1) * 2 >= feed.len
                    => feed.last[j] = 0

\* A buffer that ends inside its last frame has been framed: the last frame
\* starts with data and ends with padding.
C7_Witness ==
    /\ feed.done
    /\ feed.n >= 2
    /\ feed.len < feed.n * frameBytes
    /\ feed.last[1] # 0
    /\ feed.last[samples] = 0

C9_NoTeardownStepSkipped ==
    [][\A s \in Sess : (~sess[s].torn /\ sess'[s].torn) =>
          /\ sess'[s].silentInterval \notin sess'[s].armed
          /\ sess'[s].trackLive => ~sess'[s].pcOpen
          /\ calls'[sess[s].callId] # s]_vars

\* C10: when the pre-accept or the accept POST fails the session is fully
\* torn down (peer connection and track closed, no timer armed, no registry
\* entry), and after a failed pre-accept no accept is sent.
C10_SubmitFailureTearsDown ==
    \A s \in Sess :
        (sess[s].hpc = "failed" /\ sess[s].failedAt \in {"preAccept", "accept"})
            => /\ Released(s)
               /\ ~IsRegistered(s)
               /\ sess[s].failedAt = "preAccept" => ~AcceptSent(s)

\* The steps of handleCallOffer before its pre-accept.
NegotiationSteps == {"setRemote", "createAnswer", "setLocal"}

\* C11: when applying the remote offer, creating the answer or setting the
\* local description fails, the session of that offer is never registered,
\* no timer is started for it and it submits neither pre-accept nor accept.
C11_NegotiationFailureAborts ==
    \A s \in Sess : sess[s].failedAt \in NegotiationSteps =>
        /\ ~IsRegistered(s)
        /\ sess[s].created = 0
        /\ sess[s].armed = {}
        /\ sess[s].posts = <<>>
        /\ sess[s].frames = <<>>

\* An offer failed at one of the three steps while the request of another
\* offer is being served.
C11_Witness ==
    \E s \in Sess, e \in Sess :
        /\ sess[s].hpc = "failed"
        /\ sess[s].failedAt = "setLocal"
        /\ e # s /\ sess[e].hpc = "done"
\* C12: when applying the remote offer fails, the peer connection and the
\* track created for that offer are closed before handleCallOffer returns
\* its error.
C12_RemoteOfferFailureReleasesHandle ==
    \A s \in Sess :
        (sess[s].hpc = "failed" /\ sess[s].failedAt = "setRemote")
            => ~sess[s].pcOpen /\ ~sess[s].trackLive

\* C14: a failed download or a failed transcoding changes nothing of the
\* session but the end of its playback: the registry is as it was, and a
\* registered session keeps its entry, its peer connection open and its
\* silent timer armed.
C14_FetchFailureKeepsSilence ==
    [][\A s \in Sess :
          (sess[s].pb \in {"download", "convert"} /\ sess'[s].pb = "failed") =>
              /\ sess'[s] = [sess[s] EXCEPT !.pb = "failed"]
              /\ calls' = calls
              /\ IsRegistered(s) =>
                    /\ sess'[s].pcOpen
                    /\ sess'[s].armed = {sess'[s].silentInterval}]_vars

\* A registered session whose playback failed before taking over is on its
\* silent timer, and a silent frame has been delivered.
C14_Witness ==
    \E s \in Sess :
        /\ IsRegistered(s)
        /\ sess[s].pb = "failed"
        /\ sess[s].armed # {}
        /\ SilentCount(sess[s].frames) > 0

\* C15: after any playback error of a registered session, one after the
\* takeover included, the silent timer of its entry is armed.
C15_PlaybackErrorFallsBack ==
    \A s \in Sess :
        (IsRegistered(s) /\ sess[s].pb \in {"failed", "aborted"})
            => sess[s].silentInterval \in sess[s].armed
\* The payload is one connect event with a call id and without an SDP.
NoSdpOffer(payload) ==
    /\ payload # <<>>
    /\ payload[1].id # NoId
    /\ payload[1].event = "connect"
    /\ ~payload[1].sdp

\* C13: a connect event without an SDP starts nothing: the request that
\* carries it is answered with every session (its state, its call-control
\* requests, its timers) and the registry exactly as they were, so no
\* session is created, pre-accepted, accepted or registered for it.
C13_NoSdpNoCall ==
    [][\A r \in Reqs :
          (req[r].status = "idle" /\ NoSdpOffer(req'[r].ignored)) =>
              /\ calls' = calls
              /\ sess' = sess
              /\ req'[r].status = "sent200"]_vars

\* A request that carried a connect event without an SDP has been answered
\* while a call is registered.
C13_Witness ==
    /\ \E r \in Reqs : NoSdpOffer(req[r].ignored) /\ req[r].status = "sent200"
    /\ Registered # {}

\* The payload is one event without a call id, or one whose name is not one
\* of connect, ice_candidate, end and terminate.
Unhandled(payload) ==
    /\ payload # <<>>
    /\ \/ payload[1].id = NoId
       \/ payload[1].event \notin {"connect", "ice_candidate", "end", "terminate"}

\* C18: an event with an unhandled name or without a call id changes
\* nothing: the request that carries it leaves the registry and every
\* session (its timers, its peer connection) exactly as they were.
C18_IgnoredEventNoChange ==
    [][\A r \in Reqs :
          (req[r].status = "idle" /\ Unhandled(req'[r].ignored)) =>
              calls' = calls /\ sess' = sess]_vars

\* An unhandled event named after a registered call has been received.
C18_Witness ==
    \E r \in Reqs :
        /\ Unhandled(req[r].ignored)
        /\ req[r].ignored[1].id \in Registered
\* C16: a tick whose forwarding raises stops no clock and tears no session
\* down; only a teardown stops a clock (and, in this program, the playback
\* that takes over from it): over every step an armed timer stays armed
\* unless its session is torn down or its playback takes over in that step,
\* and a callId keeps an entry unless a session of it is torn down.
C16_TickFaultKeepsClock ==
    [][/\ \A s \in Sess : \A h \in sess[s].armed :
             \/ h \in sess'[s].armed
             \/ ~sess[s].torn /\ sess'[s].torn
             \/ sess[s].pb = "convert" /\ sess'[s].pb # "convert"
       /\ \A c \in CallIds :
             (calls[c] # 0 /\ calls'[c] = 0) =>
                 \E s \in Sess : /\ sess'[s].callId = c
                                 /\ ~sess[s].torn /\ sess'[s].torn]_vars
\* The call actions among the requests a session has submitted, in order
\* (the ICE candidates it has posted are left out).
IsCallAction(a) == a \in {"pre_accept", "accept"}
CallActions(se) == SelectSeq(se.posts, IsCallAction)

\* C19: the steps of one offer handling come in order, each after the
\* success of the one before: pre-accept is submitted when ICE gathering
\* completes (the local answer being set), accept when the pre-accept
\* resolves, the silent timer is started when the accept resolves, and a
\* frame is delivered only to a session whose accept has succeeded.
C19_OfferStepOrder ==
    [][\A s \in Sess :
          /\ Len(CallActions(sess'[s])) > Len(CallActions(sess[s])) =>
                \/ /\ sess[s].hpc = "gather" /\ sess'[s].hpc = "preAccept"
                   /\ CallActions(sess[s]) = <<>>
                   /\ CallActions(sess'[s]) = <<"pre_accept">>
                \/ /\ sess[s].hpc = "preAccept" /\ sess'[s].hpc = "accept"
                   /\ CallActions(sess[s]) = <<"pre_accept">>
                   /\ CallActions(sess'[s]) = <<"pre_accept", "accept">>
          /\ (sess[s].created = 0 /\ sess'[s].created > 0) =>
                /\ sess[s].hpc = "accept" /\ sess'[s].hpc = "done"
                /\ CallActions(sess[s]) = <<"pre_accept", "accept">>
                /\ sess[s].frames = <<>>
          /\ Len(sess'[s].frames) > Len(sess[s].frames) =>
                sess[s].hpc = "done" /\ sess[s].created > 0]_vars

\* An offer went through all its steps and its session has received a
\* silent frame.
C19_Witness ==
    \E s \in Sess :
        /\ sess[s].hpc = "done"
        /\ sess[s].posts = <<"pre_accept", "accept">>
        /\ sess[s].frames # <<>>
        /\ sess[s].frames[1].kind = "silent"
\* C17: the rejection of a local ICE candidate submission is logged and
\* nothing else: the registry, the requests being served, the progress of
\* the offer handling and every other part of every session are as before.
C17_LocalIceFailureNonFatal ==
    [][\A s \in Sess :
          sess'[s].iceRejected > sess[s].iceRejected =>
              /\ calls' = calls
              /\ req' = req
              /\ sess' = [sess EXCEPT ![s].icePending = @ - 1,
                                      ![s].iceRejected = @ + 1]]_vars

\* A submission was rejected and the session is registered with its peer
\* connection open and its timer armed.
C17_Witness ==
    \E s \in Sess :
        /\ sess[s].iceRejected > 0
        /\ IsRegistered(s)
        /\ sess[s].pcOpen
        /\ sess[s].armed # {}
\* C20: over the window from the first frame to now, of T ms, the frames
\* forwarded number T/20 give or take one, however long the window: the
\* count does not drift from the clock.
C20_NoCumulativeDrift ==
    /\ frameMs * (pace.n - 1) <= pace.now
    /\ pace.now <= frameMs * (pace.n + 1)
\* C21: the stream is seamless at a handover: every 20 ms slot around it
\* carries one frame, none carries zero and none two.  Between two frames
\* forwarded one after the other some time passes, and less than two slots,
\* or a whole slot between them carries no frame.
C21_SeamlessHandover ==
    pace.n >= 2 => (pace.gap > 0 /\ pace.gap < 2 * frameMs)
\* C22: every frame handed to an audio source, by the silent timer or by
\* the playback loop, the final padded frame of a buffer included, has
\* exactly 960 samples, each a signed 16-bit number, and is handed over as
\* 16 bits per sample, 48000 Hz, one channel.
C22_FrameFormat ==
    (feed.n > 0 \/ feed.silent > 0) =>
        /\ Len(feed.sent.samples) = 960
        /\ \A j \in 1..Len(feed.sent.samples) :
              feed.sent.samples[j] \in -32768..32767
        /\ feed.sent.bitsPerSample = 16
        /\ feed.sent.sampleRate = 48000
        /\ feed.sent.channelCount = 1

\* The final frame of a buffer that ends inside it has been handed over,
\* data first and padding last, and so has a silent frame after it.
C22_Witness ==
    /\ feed.silent > 0
    /\ feed.n = MaxFrames
    /\ feed.len < feed.n * frameBytes
    /\ feed.last[1] # 0
    /\ feed.last[samples] = 0
    /\ feed.sent.samples = SilentSamples
\* C23: no audio buffer is shared between sessions: the decoded bytes a
\* session plays are the bytes of its own fetch and transcoding, whole, and
\* never bytes another session's pipeline wrote or was writing.
C23_NoSharedAudioBuffer ==
    \A s \in Sess : disk.pipe[s].at = "playing" => disk.pipe[s].played = {s}
\* C24: the destination of the call-control requests follows ANSWER_MODE:
\* when it is CALL_SCOPED the answer goes to /{CALL_ID}/answer and an ICE
\* candidate to /{CALL_ID}/ice_candidates; when it is PHONE_SCOPED both go
\* to /{PHONE_NUMBER_ID}/calls with a type, answer or ice_candidate, and the
\* call_id.
C24_DestinationFollowsAnswerMode ==
    \A mode \in AnswerModes : \A s \in Sess : \A k \in 1..Len(sess[s].posts) :
        LET q == Request(sess[s], k)
            ice == sess[s].posts[k] = "ice_candidate"
        IN IF mode = "CALL_SCOPED"
           THEN q.path = <<sess[s].callId,
                           IF ice THEN "ice_candidates" ELSE "answer">>
           ELSE /\ q.path = <<"PHONE_NUMBER_ID", "calls">>
                /\ q.type = (IF ice THEN "ice_candidate" ELSE "answer")
                /\ q.call_id = sess[s].callId
\* C25: the failure transition fires from any state that is not terminal: a
\* session whose peer connection reported a lost connection while its offer
\* handling was suspended in NEGOTIATING or PRE_ACCEPTED is TERMINATED, and
\* that offer handling never afterwards submits accept, registers the
\* session or starts a frame timer.
C25_FailureFromAnyState ==
    \A s \in Sess : sess[s].lostAt \in {"NEGOTIATING", "PRE_ACCEPTED"} =>
        /\ SessionState(s) = "TERMINATED"
        /\ ~IsRegistered(s)
        /\ sess[s].created = 0
        /\ sess[s].lostAt = "NEGOTIATING" =>
              \A k \in 1..Len(sess[s].posts) : sess[s].posts[k] # "accept"

\* C30: a connection-state callback tears down only the session that owns
\* the peer connection it comes from: a session torn down in the step of a
\* callback (a step that serves no request) is the one whose peer
\* connection reported, never a newer session of the callId.
C30_CallbackTearsOwnSession ==
    [][\A s \in Sess :
          (~sess[s].torn /\ sess'[s].torn /\ req' = req) =>
              sess'[s].lostAt # "none"]_vars
\* The playback of the session is in flight: downloading, transcoding or in
\* its frame loop.
PlaybackInFlight(se) == se.pb \in {"download", "convert", "playing"}

\* C26: cleanupCall stops the frame clock first, then releases the
\* negotiation handle (track stopped, peer connection closed), then releases
\* the playback in flight, and removes the registry entry last.  So after a
\* teardown the session has no timer armed, whatever a later step did, and
\* its entry is gone only with its track stopped, its peer connection
\* closed and its playback released.
C26_TeardownOrder ==
    [][\A s \in Sess : (~sess[s].torn /\ sess'[s].torn) =>
          /\ sess'[s].armed = {}
          /\ calls'[sess[s].callId] # s =>
                /\ ~sess'[s].trackLive
                /\ ~sess'[s].pcOpen
                /\ ~PlaybackInFlight(sess'[s])]_vars
\* The place of a state in the order of the lifecycle.
Rank ==
    [NEGOTIATING |-> 1, PRE_ACCEPTED |-> 2, ACCEPTED |-> 3, STREAMING |-> 4,
     TERMINATED |-> 5]

\* C27 as claimed: the state of a session never moves backward in the order
\* NEGOTIATING, PRE_ACCEPTED, ACCEPTED, STREAMING, TERMINATED; the only
\* transition that skips states is one to TERMINATED, and TERMINATED is
\* never left.
C27_NeverBackward ==
    [][\A s \in Sess : (IsCreated(s) /\ IsCreated(s)') =>
          LET from == SessionState(s)
              to == SessionState(s)'
          IN /\ Rank[to] >= Rank[from]
             /\ Rank[to] > Rank[from] + 1 => to = "TERMINATED"]_vars

\* C27 as amended: the state of a session never moves backward in that
\* order, except that a STREAMING session returns to ACCEPTED when its
\* playback ends; the only transition that skips states is one to
\* TERMINATED, and TERMINATED is never left.
C27_BackwardOnlyAtPlaybackEnd ==
    [][\A s \in Sess : (IsCreated(s) /\ IsCreated(s)') =>
          LET from == SessionState(s)
              to == SessionState(s)'
          IN /\ \/ Rank[to] >= Rank[from]
                \/ /\ from = "STREAMING"
                   /\ to = "ACCEPTED"
                   /\ sess[s].pb = "playing"
                   /\ sess'[s].pb \in {"finished", "aborted"}
             /\ Rank[to] > Rank[from] + 1 => to = "TERMINATED"]_vars

\* A registered session has played its buffer to the end and is back on
\* silence, its last frame so far being a file frame.
C27_Witness ==
    \E s \in Sess :
        /\ IsRegistered(s)
        /\ sess[s].pb = "finished"
        /\ sess[s].frames # <<>>
        /\ sess[s].frames[Len(sess[s].frames)].kind = "file"
        /\ sess[s].armed # {}
\* C28: the file frames of a call are delivered strictly in sequence: a
\* step delivers at most one frame to an audio source, after those already
\* delivered, and the i-th file frame is the i-th slice of 1920 bytes of the
\* decoded buffer, so each slice is delivered once and frame N+1 is built
\* only after frame N has been forwarded.
C28_FileFramesSequential ==
    [][\A s \in Sess :
          Len(sess'[s].frames) > Len(sess[s].frames) =>
              LET new == sess'[s].frames[Len(sess'[s].frames)] IN
              /\ Len(sess'[s].frames) = Len(sess[s].frames) + 1
              /\ SubSeq(sess'[s].frames, 1, Len(sess[s].frames))
                    = sess[s].frames
              /\ new.kind = "file" =>
                    /\ new.off = 1920 * Cardinality(FilePlaces(s))
                    /\ new.off < sess'[s].pcmLen]_vars

\* A registered session is in its frame loop and has been given every
\* frame of a buffer of MaxFrames frames.
C28_Witness ==
    \E s \in Sess :
        /\ IsRegistered(s)
        /\ sess[s].pb = "playing"
        /\ Cardinality(FilePlaces(s)) = MaxFrames
\* A remote ICE candidate event for the callId.
RemoteIce(c) == [id |-> c, event |-> "ice_candidate", sdp |-> FALSE]

\* C29: a remote ICE candidate for a callId with a registered session is
\* forwarded to the peer connection of that session (the request awaits
\* addIceCandidate) and leaves every session, its timer included, and the
\* registry as they were, when the candidate is added and when adding it
\* fails; one for a callId without a registered session is dropped (the
\* request is answered) with no change of state.  This holds of the event
\* arriving in any state, and of every step that settles a forwarded one.
C29_RemoteIceNoStateChange ==
    /\ [](\A c \in CallIds, r \in Reqs, ok \in BOOLEAN :
            LET st0 == [State EXCEPT
                           !.req[r] = [NoRequest EXCEPT !.rest = <<RemoteIce(c)>>]]
                st1 == RunEvents(st0, r, NoFaults)
                st2 == RemoteIceSettles(st1, r, ok, NoFaults)
            IN /\ st1.calls = calls /\ st1.sess = sess
               /\ IF calls[c] = 0 THEN st1.req[r].status = "sent200"
                  ELSE /\ st1.req[r].status = "ice"
                       /\ st2.calls = calls /\ st2.sess = sess
                       /\ st2.req[r].status = "sent200")
    /\ [][\A r \in Reqs :
             (req[r].status = "ice" /\ Len(req[r].rest) = 1
                 /\ req'[r].status = "sent200") =>
                     calls' = calls /\ sess' = sess]_vars

\* A request awaits addIceCandidate on the peer connection of a registered
\* session whose silent timer is armed.
C29_Witness ==
    \E r \in Reqs :
        /\ req[r].status = "ice"
        /\ calls[req[r].rest[1].id] # 0
        /\ sess[calls[req[r].rest[1].id]].armed # {}
\* C31: the registry holds an entry only for a session whose pre-accept and
\* accept were both submitted with success and whose silent timer has been
\* started: every entry of calls has an audio producer, armed or playing,
\* and a peer connection whose local description was set.
C31_EntryIsAcceptedAndProducing ==
    \A c \in CallIds : calls[c] # 0 =>
        LET se == sess[calls[c]] IN
        /\ se.callId = c
        /\ se.hpc = "done"
        /\ CallActions(se) = <<"pre_accept", "accept">>
        /\ se.created >= 1
        /\ se.armed # {} \/ se.pb = "playing"
\* The events a are the last events of b.
IsSuffix(a, b) ==
    /\ Len(a) <= Len(b)
    /\ a = SubSeq(b, Len(b) - Len(a) + 1, Len(b))

\* The events still to handle are an offer for the callId followed by its
\* hangup: with the offer handling in flight they are the whole payload.
ConnectThenEnd(rest, c) ==
    /\ Len(rest) = 2
    /\ rest[1] = [id |-> c, event |-> "connect", sdp |-> TRUE]
    /\ rest[2].id = c
    /\ IsHangup(rest[2].event)

\* The sessions whose handleCallOffer the request awaits.
Awaited(r) == {s \in Sess : sess[s].req = r}

\* C32: the call events of a payload are handled in list order, and the
\* handling of an event begins only when handleCallOffer or handleRemoteIce
\* of the event before it has returned: a request awaits at most one
\* handler, the events left to handle are always the last events of those
\* left before, and they stay as they are while the handler awaited has not
\* settled.  Hence a payload of an offer followed by the hangup of the same
\* callId, handled to its end, ends with no registry entry for that callId
\* (an offer handling that throws ends the payload there: see C33).
C32_EventsInOrder ==
    /\ [](\A r \in Reqs :
            /\ Cardinality(Awaited(r)) <= 1
            /\ req[r].status = "offer" <=> Awaited(r) # {}
            /\ req[r].status \in {"offer", "ice"} => req[r].rest # <<>>)
    /\ [][\A r \in Reqs : req'[r].status # "exited" =>
             /\ req[r].status # "idle" => IsSuffix(req'[r].rest, req[r].rest)
             /\ (req[r].status = "offer" /\ req'[r].rest # req[r].rest) =>
                   \E s \in Awaited(r) :
                       /\ sess[s].hpc \notin {"done", "failed"}
                       /\ sess'[s].hpc \in {"done", "failed"}
                       /\ sess'[s].req = 0
             /\ \A c \in CallIds :
                   (/\ req[r].status = "offer"
                    /\ ConnectThenEnd(req[r].rest, c)
                    /\ req'[r].status = "sent200") =>
                        calls'[c] = 0]_vars

\* The request of an offer followed by the hangup of its callId has been
\* answered: the session of the offer was registered, its timer started and
\* its playback begun, and it is torn down with no entry left.
C32_Witness ==
    \E s \in Sess, r \in Reqs :
        /\ req[r].status = "sent200"
        /\ sess[s].hpc = "done"
        /\ sess[s].created = 1
        /\ sess[s].pb = "download"
        /\ sess[s].frames = <<>>
        /\ sess[s].torn
        /\ calls[sess[s].callId] = 0
\* C33: when handleCallOffer throws, no later event of the payload is
\* handled, events for other callIds included (the request has nothing left
\* to handle, for good), the request is answered 500, and the registry, the
\* other requests and every other session are left as they were; of the
\* session of the offer only the failure is noted.
C33_OfferThrowAbortsPayload ==
    /\ [](\A r \in Reqs : req[r].status = "sent500" => req[r].rest = <<>>)
    /\ [][/\ \A s \in Sess :
                (sess[s].hpc \notin {"none", "done", "failed"}
                    /\ sess'[s].hpc = "failed") =>
                    LET r == sess[s].req IN
                    /\ req' = [req EXCEPT ![r].rest = <<>>,
                                          ![r].status = "sent500"]
                    /\ calls' = calls
                    /\ sess' = [sess EXCEPT ![s].hpc = "failed",
                                            ![s].failedAt = sess[s].hpc,
                                            ![s].req = 0]
          /\ \A r \in Reqs :
                req[r].status = "sent500" =>
                    req'[r].status \in {"sent500", "exited"}]_vars

\* The offer of call "B" has thrown and its request is answered 500 while
\* call "A" is registered with its peer connection open and its timer armed.
C33_Witness ==
    \E s \in Sess, r \in Reqs :
        /\ sess[s].callId = "B"
        /\ sess[s].hpc = "failed"
        /\ req[r].status = "sent500"
        /\ calls["A"] # 0
        /\ sess[calls["A"]].pcOpen
        /\ sess[calls["A"]].armed # {}
\* The two bytes an Int16Array holds for a sample, low byte first.
Int16Bytes(v) ==
    LET u == (v + 65536) % 65536 IN <<u % 256, u \div 256>>

\* The offset at which the loop built its latest frame.
LastOffset == (feed.n - 1) * frameBytes

\* Byte k of the stream delivered, k lying in the latest frame.
DeliveredByte(k) ==
    LET d == k - LastOffset
    IN Int16Bytes(feed.last[(d \div 2) + 1])[(d % 2) + 1]

\* Byte k of the buffer padded with zeros.
PaddedByte(k) == IF k < feed.len THEN PcmByte(feed.fill, k) ELSE 0

\* C34: sample j of the frame built at byte offset i is the little-endian
\* 16-bit value of bytes i+2j and i+2j+1 of the buffer when both lie inside
\* it and 0 otherwise.  So for a buffer of even length the frames, one after
\* the other, are the buffer padded with zeros to a multiple of 1920 bytes,
\* and for one of odd length they are that but for the final byte of the
\* buffer, which is not delivered (a zero is, in its place).
C34_FrameSamplesFromBuffer ==
    feed.n > 0 =>
        /\ \A j \in 0..(samples - 1) :
              LET k == LastOffset + 2 * j
                  lo == PcmByte(feed.fill, k)
                  hi == PcmByte(feed.fill, k + 1)
              IN feed.last[j + 1] =
                    IF k + 1 < feed.len
                    THEN (IF hi >= 128 THEN lo + 256 * hi - 65536
                          ELSE lo + 256 * hi)
                    ELSE 0
        /\ \A k \in LastOffset..(LastOffset + 1919) :
              DeliveredByte(k) =
                  IF feed.len % 2 = 1 /\ k = feed.len - 1 THEN 0
                  ELSE PaddedByte(k)
        /\ feed.done =>
              /\ feed.n * 1920 >= feed.len
              /\ (feed.n - 1) * 1920 < feed.len

\* A buffer of odd length has been framed to its end: its last frame starts
\* with data, and the final byte of the buffer, which is not zero, is
\* delivered as zero.
C34_Witness ==
    /\ feed.done
    /\ feed.n >= 2
    /\ feed.len % 2 = 1
    /\ feed.last[1] # 0
    /\ PcmByte(feed.fill, feed.len - 1) # 0
    /\ DeliveredByte(feed.len - 1) = 0
\* The awaits of handleCallOffer.
OfferSteps ==
    {"setRemote", "createAnswer", "setLocal", "gather", "preAccept", "accept"}

\* The process has exited on an uncaught exception (see SilentTickRaises).
ProcessExited == \A r \in Reqs : req[r].status = "exited"

\* C35: when every external operation returns in the end, every
\* handleCallOffer finishes (as long as the process runs), either with its
\* session registered and on silence (its entry set, its silent timer armed
\* and the one of the entry; the events after the offer are handled in the
\* same step and may tear it down at once) or with an error, nothing
\* registered and no timer started.  An offer handling that waits for the ICE
\* gathering goes on only when the gathering completes: until then its
\* request awaits it and handles no later event of its payload.
C35_OfferHandlingFinishes ==
    /\ \A s \in Sess :
          (sess[s].hpc \in OfferSteps)
              ~> (sess[s].hpc \in {"done", "failed"} \/ ProcessExited)
    /\ [][\A s \in Sess :
             /\ (sess[s].hpc \in OfferSteps /\ sess'[s].hpc = "done") =>
                   LET st == RegisterSession(State, s) IN
                   /\ sess[s].hpc = "accept"
                   /\ st.calls[sess[s].callId] = s
                   /\ st.sess[s].armed = {st.sess[s].silentInterval}
                   /\ st.sess[s].armed # {}
                   /\ \/ /\ calls'[sess[s].callId] = s
                         /\ sess'[s] = [st.sess[s] EXCEPT !.req = 0]
                      \/ sess'[s].torn
             /\ (sess[s].hpc \in OfferSteps /\ sess'[s].hpc = "failed") =>
                   /\ calls' = calls
                   /\ calls'[sess[s].callId] # s
                   /\ sess'[s].created = 0
                   /\ sess'[s].armed = {}
             /\ (sess[s].hpc = "gather" /\ ~ProcessExited') =>
                   LET r == sess[s].req IN
                   /\ req[r].status = "offer"
                   /\ Len(req[r].rest) >= 1
                   /\ \/ /\ sess'[s].hpc = "gather"
                         /\ req'[r] = req[r]
                      \/ /\ sess'[s].hpc = "preAccept"
                         /\ sess'[s].posts = Append(sess[s].posts, "pre_accept")
                         /\ req'[r] = req[r]]_vars

\* An offer handling has finished with its session registered and on
\* silence while another has finished with an error, after its pre-accept.
C35_Witness ==
    \E s \in Sess, e \in Sess :
        /\ sess[s].hpc = "done"
        /\ calls[sess[s].callId] = s
        /\ sess[s].armed = {sess[s].silentInterval}
        /\ SilentCount(sess[s].frames) > 0
        /\ sess[e].hpc = "failed"
        /\ sess[e].failedAt = "accept"
\* C36: cleanupCall(A) affects only callId A: in every state, whatever the
\* teardown steps do, it leaves the entry of every other callId, every
\* session of another callId (its peer connection, its timers, the progress
\* of its playback) and every request as they are, and without an entry for
\* A it changes nothing at all; and a step of a connection-state callback
\* that tears a session down changes nothing of the other callIds.
C36_CleanupOnlyItsCall ==
    /\ [](\A c \in CallIds : \A f \in FaultsOf({c}) :
            LET st == cleanupCall(State, c, f) IN
            /\ calls[c] = 0 => st = State
            /\ \A b \in CallIds \ {c} : st.calls[b] = calls[b]
            /\ \A s \in Sess : sess[s].callId # c => st.sess[s] = sess[s]
            /\ \A s \in Sess : s # calls[c] => st.sess[s] = sess[s]
            /\ st.req = req)
    /\ [][\A s \in Sess :
             (~sess[s].torn /\ sess'[s].torn /\ req' = req) =>
                 /\ \A b \in CallIds \ {sess[s].callId} : calls'[b] = calls[b]
                 /\ \A e \in Sess :
                       sess[e].callId # sess[s].callId => sess'[e] = sess[e]]_vars

\* Call "A" has been cleaned up while call "B" is registered, with its peer
\* connection open and its playback loop running.
C36_Witness ==
    \E s \in Sess, e \in Sess :
        /\ sess[s].callId = "A" /\ sess[s].torn /\ calls["A"] = 0
        /\ sess[e].callId = "B" /\ calls["B"] = e
        /\ sess[e].pcOpen
        /\ sess[e].pb = "playing"
        /\ sess[e].frames # <<>>
\* C37: for every registered session that is not in its file playback the
\* timer handle stored in its entry is the one and only armed timer of its
\* audio source (the timer restarted after a playback is the one recorded
\* in the entry), so that a cleanupCall whose steps all run leaves the
\* session with no timer armed.
C37_EntryTimerIsTheArmedOne ==
    \A s \in Sess : (IsRegistered(s) /\ sess[s].pb # "playing") =>
        /\ sess[s].armed = {sess[s].silentInterval}
        /\ cleanupCall(State, sess[s].callId, NoFaults).sess[s].armed = {}

====
